---- MODULE Spec2Model ----
(***************************************************************************)
(* A model of VideoProcessor (src/video_processor.py): the metadata        *)
(* extractor (probe_file), the bitrate model (_calculate_bitrate), the     *)
(* command builder (_build_command) and the encode supervisor (encode,     *)
(* _monitor_encoding_process, _verify_output), with the tenacity retry     *)
(* wrappers that decorate probe_file and encode.                           *)
(*                                                                         *)
(* Python dicts are modelled as functions whose DOMAIN is the set of keys: *)
(* d[k] on a missing key is a KeyError, d.get(k, v) is Get(d, k, v).       *)
(* Exceptions are records [type, detail].                                  *)
(***************************************************************************)
EXTENDS Integers, Sequences, FiniteSets, TLC

VARIABLES
    config,            \* self.config (EncodingConfig)
    probe_data,        \* self.probe_data (None or the parsed probe report)
    duration,          \* self.duration
    video_metadata,    \* self.video_metadata
    hw_support,        \* self.hw_support: "None", "True" or "False"
    has_dolby_vision,  \* self.has_dolby_vision
    dv,                \* self.dv_profile, self.dv_bl_present_flag, self.dv_el_present_flag,
                       \* self.dv_bl_signal_compatibility_id
    fileReport,        \* what the prober prints for the input file
    outFile,           \* the output path: "absent", "empty", "preexisting", "written"
    pc,                \* position of the caller / supervisor
    call,              \* the public method in progress: "none", "encode", ...
    attempt_number,    \* tenacity attempt number of the encode wrapper
    probe_attempt,     \* tenacity attempt number of the probe_file wrapper
    err,               \* the exception in flight or raised to the caller
    target_bitrate,    \* the bitrate computed in this attempt (0: none)
    cmd,               \* the command built in this attempt (<<>>: none)
    stream_indexes,    \* the stream indexes selected for that command (line 322)
    curState,          \* the Popen object of this attempt: "none", "running", "exited"
    returncode,        \* process.returncode once the process has exited
    curOpened,         \* has the current process opened (created) the output
    stderrBuf,         \* lines written to the diagnostic pipe and not yet read
    stderrClosed,      \* the running process has closed its diagnostic stream
    elapsed,           \* time.time() - last_progress, in seconds
    lingerFresh,       \* terminated processes still alive, output not yet opened
    lingerOpened,      \* terminated processes still alive, output opened
    logged,            \* level of the message forwarded for the last line read
    reprobe,           \* outcome of the last post-encode ffprobe: "none", "ok", "failed"
    history,           \* the exception each attempt of the current call ended with
    spawnCount,        \* encoder processes spawned by the current encode call
    probeRuns,         \* prober invocations made by the current call
    hwQueries,         \* hardware capability queries made in this session
    hw_query,          \* what the last capability query process did
    calls,             \* public calls made in this session
    atCall             \* the output path and the query count when the call began

session == <<config, probe_data, duration, video_metadata, hw_support, has_dolby_vision, dv>>
process == <<curState, returncode, curOpened, stderrBuf, stderrClosed, elapsed, lingerFresh,
             lingerOpened>>
control == <<pc, call, attempt_number, probe_attempt, err, target_bitrate, cmd, stream_indexes,
             history>>
counters == <<spawnCount, probeRuns, hwQueries, hw_query, calls, atCall>>
vars == <<session, fileReport, outFile, process, logged, reprobe, control, counters>>

----------------------------------------------------------------------------
(* Python values *)

None == [none |-> TRUE]

EmptyDict == [k \in {} |-> TRUE]

HasKey(d, k) == k \in DOMAIN d

Get(d, k, default) == IF k \in DOMAIN d THEN d[k] ELSE default

\* bool(x) of None or a dict
Truthy(d) == d # None /\ DOMAIN d # {}

NoError == [type |-> "none", detail |-> ""]

Exception(t, d) == [type |-> t, detail |-> d]

Max(a, b) == IF a >= b THEN a ELSE b

Min(a, b) == IF a <= b THEN a ELSE b

\* floor(v * n / d) without leaving 32 bits
MulDiv(v, n, d) == (v \div d) * n + ((v % d) * n) \div d

----------------------------------------------------------------------------
(* EncodingConfig *)

audio_bitrate_384k == <<"3", "8", "4", "k">>

DefaultConfig ==
    [ target_size_gb |-> 25,
      copy_audio |-> TRUE,
      copy_subtitles |-> TRUE,
      english_audio_only |-> FALSE,
      english_subtitles_only |-> FALSE,
      use_hardware_acceleration |-> TRUE,
      hardware_encoder |-> "hevc_videotoolbox",
      fallback_encoder |-> "libx265",
      audio_codec |-> "aac",
      audio_bitrate |-> audio_bitrate_384k,
      min_video_bitrate |-> 8000000,
      max_video_bitrate |-> 30000000,
      preset |-> "medium",
      quality_preset |-> "medium",
      allow_sw_fallback |-> TRUE,
      hdr_params |-> [ max_cll |-> "1000,400",
                       master_display |->
                         "G(13250,34500)B(7500,3000)R(34000,16000)WP(15635,16450)L(10000000,50)" ],
      realtime |-> "false",
      b_frames |-> "6",
      max_ref_frames |-> "4",
      group_of_pictures |-> "140" ]

\* validate_config: the configured floor lies in [MIN_BITRATE, MAX_BITRATE]
MIN_BITRATE == 1000000

MAX_BITRATE == 30000000

validate_config(c) == MIN_BITRATE <= c.min_video_bitrate /\ c.min_video_bitrate <= MAX_BITRATE

DigitValue(ch) ==
    CASE ch = "0" -> 0 [] ch = "1" -> 1 [] ch = "2" -> 2 [] ch = "3" -> 3 [] ch = "4" -> 4
      [] ch = "5" -> 5 [] ch = "6" -> 6 [] ch = "7" -> 7 [] ch = "8" -> 8 [] ch = "9" -> 9

RECURSIVE rstrip(_, _)
rstrip(s, ch) ==
    IF Len(s) > 0 /\ s[Len(s)] = ch THEN rstrip(SubSeq(s, 1, Len(s) - 1), ch) ELSE s

RECURSIVE int(_)
int(s) == IF Len(s) = 0 THEN 0 ELSE int(SubSeq(s, 1, Len(s) - 1)) * 10 + DigitValue(s[Len(s)])

\* int(self.config.audio_bitrate.rstrip("k")) * 1000
audio_bitrate_bps(c) == int(rstrip(c.audio_bitrate, "k")) * 1000

----------------------------------------------------------------------------
(* Probe reports: the JSON the prober prints, parsed *)

DOVI_MARKER == "dovi_configuration_record"

DOVI_SIDE_DATA_TYPE == "DOVI configuration record"

SeqToSet(s) == {s[i] : i \in 1..Len(s)}

\* "dovi_configuration_record" in str(x), x a side data entry. In the reports of
\* this model the marker can only occur as the value of side_data_type.
StrHasDoviMarker(entry) == Get(entry, "side_data_type", "") = DOVI_MARKER

\* "dovi_configuration_record" in str(s), s a stream
StreamStrHasDoviMarker(s) ==
    \E e \in SeqToSet(Get(s, "side_data_list", <<>>)) : StrHasDoviMarker(e)

\* next((s for s in streams if s["codec_type"] == "video"), None)
first_video_stream(streams) ==
    LET idx == {i \in 1..Len(streams) : streams[i]["codec_type"] = "video"}
    IN IF idx = {} THEN None
       ELSE streams[CHOOSE i \in idx : \A j \in idx : i <= j]

\* the first side data entry carrying the marker, or None
first_dovi_marker(side_data) ==
    LET idx == {i \in 1..Len(side_data) : StrHasDoviMarker(side_data[i])}
    IN IF idx = {} THEN None
       ELSE side_data[CHOOSE i \in idx : \A j \in idx : i <= j]

\* lines 104-127: the metadata dict built from the first video stream
build_video_metadata(streams, video_stream) ==
    LET has_dovi == \E s \in SeqToSet(streams) : StreamStrHasDoviMarker(s)
        base == [ codec_name |-> Get(video_stream, "codec_name", ""),
                  height |-> Get(video_stream, "height", 0),
                  frame_rate |-> Get(video_stream, "r_frame_rate", <<24, 1>>),
                  is_hdr10 |-> Get(video_stream, "color_transfer", "") = "smpte2084",
                  is_hlg |-> Get(video_stream, "color_transfer", "") = "arib-std-b67",
                  has_dovi |-> has_dovi,
                  bits_per_raw_sample |-> Get(video_stream, "bits_per_raw_sample", 8) ]
        data == first_dovi_marker(Get(video_stream, "side_data_list", <<>>))
    IN IF has_dovi /\ data # None
       THEN base @@ [ dovi_profile |-> Get(data, "dovi_profile", 0),
                      dovi_bl_present_flag |-> Get(data, "dovi_bl_present_flag", 1),
                      dovi_el_present_flag |-> Get(data, "dovi_el_present_flag", 0) ]
       ELSE base

\* The body of probe_file (lines 74-139) given what the prober did:
\* outcome "CalledProcessError" (nonzero exit), "JSONDecodeError" (unparseable
\* output) or "ok" (report parsed). The fields are assigned in source order, so
\* a KeyError leaves the earlier assignments in place.
probe_file_body(outcome, report, old_duration, old_vm) ==
    IF outcome # "ok"
    THEN [ probe_data |-> None, set_probe_data |-> FALSE, duration |-> old_duration,
           video_metadata |-> old_vm,
           exc |-> Exception("ProbeError", outcome) ]
    ELSE IF ~HasKey(report, "format")
    THEN [ probe_data |-> report, set_probe_data |-> TRUE, duration |-> old_duration,
           video_metadata |-> old_vm, exc |-> Exception("KeyError", "format") ]
    ELSE IF ~HasKey(report["format"], "size")
    THEN [ probe_data |-> report, set_probe_data |-> TRUE, duration |-> old_duration,
           video_metadata |-> old_vm, exc |-> Exception("KeyError", "size") ]
    ELSE IF ~HasKey(report["format"], "duration")
    THEN [ probe_data |-> report, set_probe_data |-> TRUE, duration |-> old_duration,
           video_metadata |-> old_vm, exc |-> Exception("KeyError", "duration") ]
    ELSE IF ~HasKey(report, "streams")
    THEN [ probe_data |-> report, set_probe_data |-> TRUE,
           duration |-> report["format"]["duration"],
           video_metadata |-> old_vm, exc |-> Exception("KeyError", "streams") ]
    ELSE LET video_stream == first_video_stream(report["streams"])
         IN [ probe_data |-> report, set_probe_data |-> TRUE,
              duration |-> report["format"]["duration"],
              video_metadata |->
                  IF video_stream # None
                  THEN build_video_metadata(report["streams"], video_stream)
                  ELSE old_vm,
              exc |-> NoError ]

----------------------------------------------------------------------------
(* Bitrate model: _calculate_bitrate (lines 204-306)                       *)
(* Multipliers are kept as integer ratios.  The source multiplies floats   *)
(* and truncates once; here every factor is applied with an exact floor,   *)
(* which differs from the source by a few bits per second before the clamp.*)

\* total_bits / duration, total_bits = target_size_gb * 8 * 1024**3 * 0.95
\* (8 * 1024**3 * 0.95 = 8160437862.4 bits per GB)
total_bits_per_second(gb, d) ==
    LET hi == gb * 8160437
        lo == gb * 862 + (gb * 2) \div 5
    IN (hi \div d) * 1000 + ((hi % d) * 1000 + lo) \div d

\* lines 235-239, in hundredths
resolution_multiplier(vm) ==
    CASE vm["height"] = 2160 -> 100
      [] vm["height"] = 1440 -> 75
      [] vm["height"] = 1080 -> 55
      [] OTHER -> 35

\* frame_rate > high_framerate_threshold, frame_rate the rational <<n, d>>, d > 0
high_framerate(vm) == vm["frame_rate"][1] > 30 * vm["frame_rate"][2]

\* a content multiplier that leaves the frame rate out
content_type_multiplier_without_framerate(vm) ==
    IF vm["has_dovi"]
    THEN (IF Get(vm, "dovi_profile", 5) = 7 THEN 1300 ELSE 1200)
    ELSE IF vm["is_hdr10"] THEN 1150
    ELSE IF vm["is_hlg"] THEN 1100
    ELSE 1000

\* lines 242-259, in thousandths
content_type_multiplier(vm) ==
    LET base == IF vm["has_dovi"]
                THEN (IF Get(vm, "dovi_profile", 5) = 7 THEN 1300 ELSE 1200)
                ELSE IF vm["is_hdr10"] THEN 1150
                ELSE IF vm["is_hlg"] THEN 1100
                ELSE 1000
    IN IF high_framerate(vm) THEN (base * 3) \div 2 ELSE base

\* lines 262-265, in tenths
bit_depth_multiplier(vm) == IF vm["bits_per_raw_sample"] <= 8 THEN 10 ELSE 11

\* line 269, in tenths
codec_multiplier(vm) == IF vm["codec_name"] = "hevc" THEN 7 ELSE 10

\* line 272
audio_streams(pd) ==
    Cardinality({i \in 1..Len(pd["streams"]) : pd["streams"][i]["codec_type"] = "audio"})

\* lines 288-292
effective_min_bitrate(c, vm) ==
    IF vm["has_dovi"] THEN Max(12000000, c.min_video_bitrate)
    ELSE IF vm["is_hdr10"] THEN Max(8000000, c.min_video_bitrate)
    ELSE c.min_video_bitrate

\* lines 277-285: int(target_video_bits / self.duration)
unclamped_bitrate(c, pd, dur, vm) ==
    LET audio == IF c.copy_audio THEN audio_streams(pd) * audio_bitrate_bps(c) ELSE 0
        v0 == total_bits_per_second(c.target_size_gb, dur) - audio
        v1 == MulDiv(v0, resolution_multiplier(vm), 100)
        v2 == MulDiv(v1, content_type_multiplier(vm), 1000)
        v3 == MulDiv(v2, bit_depth_multiplier(vm), 10)
    IN MulDiv(v3, codec_multiplier(vm), 10)

\* a normalisation that applies the ceiling only
clamp_and_normalize_without_floor(target, min_bitrate, max_bitrate) ==
    (Min(target, max_bitrate) \div 1000000) * 1000000

\* lines 295-296
clamp_and_normalize(target, min_bitrate, max_bitrate) ==
    (Max(min_bitrate, Min(target, max_bitrate)) \div 1000000) * 1000000

\* the keys of video_metadata that lines 239-269 index with vm[...]
metadata_keys_read(vm) ==
    {"height", "has_dovi", "frame_rate", "bits_per_raw_sample", "codec_name"}
      \cup (IF HasKey(vm, "has_dovi") /\ vm["has_dovi"] THEN {} ELSE {"is_hdr10"})
      \cup (IF (HasKey(vm, "has_dovi") /\ vm["has_dovi"])
               \/ (HasKey(vm, "is_hdr10") /\ vm["is_hdr10"]) THEN {} ELSE {"is_hlg"})

\* _calculate_bitrate: [exc, value]
calculate_bitrate(c, pd, dur, vm) ==
    IF ~Truthy(pd) \/ dur <= 0
    THEN [exc |-> Exception("ValueError", "Invalid probe data"), value |-> 0]
    ELSE IF ~(metadata_keys_read(vm) \subseteq DOMAIN vm)
    THEN [exc |-> Exception("KeyError", "video_metadata"), value |-> 0]
    ELSE IF ~HasKey(pd, "streams")
    THEN [exc |-> Exception("KeyError", "streams"), value |-> 0]
    ELSE [exc |-> NoError,
          value |-> clamp_and_normalize(unclamped_bitrate(c, pd, dur, vm),
                                        effective_min_bitrate(c, vm),
                                        c.max_video_bitrate)]

----------------------------------------------------------------------------
(* Inputs *)

DoviMarkerRecord(profile) ==
    [side_data_type |-> DOVI_MARKER, dovi_profile |-> profile]

\* the record as ffprobe prints it
DoviFfprobeRecord(profile) ==
    [ side_data_type |-> DOVI_SIDE_DATA_TYPE, dv_profile |-> profile,
      dv_bl_present_flag |-> 1, dv_el_present_flag |-> 0,
      dv_bl_signal_compatibility_id |-> 1 ]

SideDataLists ==
    { <<>>, <<DoviMarkerRecord(7)>>, <<DoviMarkerRecord(5)>>, <<DoviFfprobeRecord(8)>> }

VideoStream(idx, h, transfer, codec, bits, rate, side) ==
    [ index |-> idx, codec_type |-> "video", codec_name |-> codec, height |-> h,
      r_frame_rate |-> rate, color_transfer |-> transfer,
      bits_per_raw_sample |-> bits, side_data_list |-> side ]

AudioStream(idx, lang) ==
    [ index |-> idx, codec_type |-> "audio", codec_name |-> "aac",
      tags |-> [language |-> lang] ]

Report(dur, streams) ==
    [ format |-> [size |-> 1073741824, duration |-> dur], streams |-> streams ]

BitrateVideoStreams ==
    { VideoStream(0, h, t, c, b, r, sd) :
        h \in {2160, 1080, 720}, t \in {"smpte2084", "arib-std-b67", "bt709"},
        c \in {"hevc", "h264"}, b \in {8, 10}, r \in {<<24, 1>>, <<60, 1>>},
        sd \in SideDataLists }

BitrateReports ==
    { Report(d, <<v>> \o a) :
        d \in {0, 1800, 3600}, v \in BitrateVideoStreams,
        a \in {<<>>, <<AudioStream(1, "eng"), AudioStream(2, "fre")>>} }

BitrateConfigs ==
    { [DefaultConfig EXCEPT !.target_size_gb = gb, !.min_video_bitrate = lo,
                            !.max_video_bitrate = hi, !.copy_audio = ca] :
        gb \in {4, 25}, lo \in {8000000, 8500000}, hi \in {20000000, 30000000},
        ca \in BOOLEAN }

----------------------------------------------------------------------------
(* State after construction (__init__, lines 41-56) *)

\* exit codes of the external processes
ExitCodes == {0, 1}

\* what the capability query ["ffmpeg", "-encoders"] can do: the process cannot
\* be started, or it runs, exits with a code and has or has not printed the
\* name of the hardware encoder
HwQueryOutcomes ==
    { [status |-> "cannot_run"] }
      \cup { [status |-> "ran", returncode |-> code, listed |-> l] :
               code \in ExitCodes, l \in BOOLEAN }

\* no capability query has been made
NoQuery == None

\* lines 52-55: the four dv_* attributes are None
NoDolbyVisionFields == None

InitSession(c) ==
    /\ config = c
    /\ probe_data = None
    /\ duration = 0
    /\ video_metadata = EmptyDict
    /\ hw_support = "None"
    /\ has_dolby_vision = FALSE
    /\ dv = NoDolbyVisionFields

InitRest ==
    /\ pc = "idle"
    /\ call = "none"
    /\ attempt_number = 0
    /\ probe_attempt = 0
    /\ err = NoError
    /\ target_bitrate = 0
    /\ cmd = <<>>
    /\ stream_indexes = None
    /\ curState = "none"
    /\ returncode = 0
    /\ curOpened = FALSE
    /\ stderrBuf = <<>>
    /\ stderrClosed = FALSE
    /\ elapsed = 0
    /\ lingerFresh = 0
    /\ lingerOpened = 0
    /\ reprobe = "none"
    /\ logged = "none"
    /\ history = <<>>
    /\ spawnCount = 0
    /\ probeRuns = 0
    /\ hwQueries = 0
    /\ hw_query = NoQuery
    /\ calls = 0
    /\ atCall = [outFile |-> "absent", hwQueries |-> 0]

----------------------------------------------------------------------------
(* The bitrate model on its own: a session whose probe has succeeded, on    *)
(* which the caller invokes calculate_bitrate (lines 196-198).              *)

BitrateInit ==
    /\ \E c \in BitrateConfigs, r \in BitrateReports :
         LET p == probe_file_body("ok", r, 0, EmptyDict)
         IN /\ validate_config(c)
            /\ config = c
            /\ fileReport = r
            /\ probe_data = p.probe_data
            /\ duration = p.duration
            /\ video_metadata = p.video_metadata
    /\ hw_support = "None"
    /\ has_dolby_vision = FALSE
    /\ dv = NoDolbyVisionFields
    /\ outFile = "absent"
    /\ InitRest

CallCalculateBitrate ==
    /\ pc = "idle"
    /\ LET r == calculate_bitrate(config, probe_data, duration, video_metadata)
       IN /\ target_bitrate' = r.value
          /\ err' = r.exc
          /\ pc' = IF r.exc = NoError THEN "returned" ELSE "raised"
    /\ call' = "calculate_bitrate"
    /\ calls' = calls + 1
    /\ UNCHANGED <<session, fileReport, outFile, process, logged, reprobe, attempt_number,
                   probe_attempt, cmd, stream_indexes, history, spawnCount, probeRuns,
                   hwQueries, hw_query, atCall>>

BitrateNext == CallCalculateBitrate

SpecBitrate == BitrateInit /\ [][BitrateNext]_vars

\* C1: for every valid metadata/configuration combination (duration > 0, probe
\* data present) the bitrate returned by calculate_bitrate lies within
\* [effective_min, configured_max] and is an exact multiple of 1,000,000.
C1_BitrateWithinBounds ==
    (pc = "returned" /\ call = "calculate_bitrate") =>
        /\ target_bitrate >= effective_min_bitrate(config, video_metadata)
        /\ target_bitrate <= config.max_video_bitrate
        /\ target_bitrate % 1000000 = 0

\* the bitrate lines 277-296 give when the content multiplier is m thousandths
bitrate_with_content_multiplier(c, pd, dur, vm, m) ==
    LET audio == IF c.copy_audio THEN audio_streams(pd) * audio_bitrate_bps(c) ELSE 0
        v0 == total_bits_per_second(c.target_size_gb, dur) - audio
        v1 == MulDiv(v0, resolution_multiplier(vm), 100)
        v2 == MulDiv(v1, m, 1000)
        v3 == MulDiv(v2, bit_depth_multiplier(vm), 10)
    IN clamp_and_normalize(MulDiv(v3, codec_multiplier(vm), 10),
                           effective_min_bitrate(c, vm), c.max_video_bitrate)

DolbyVisionProfile7(vm) == vm["has_dovi"] /\ HasKey(vm, "dovi_profile") /\ vm["dovi_profile"] = 7

\* the content multiplier the bitrate model is to apply, in thousandths
ContentMultiplier(vm) ==
    LET base == IF DolbyVisionProfile7(vm) THEN 1300
                ELSE IF vm["has_dovi"] THEN 1200
                ELSE IF vm["is_hdr10"] THEN 1150
                ELSE IF vm["is_hlg"] THEN 1100
                ELSE 1000
    IN IF vm["frame_rate"][1] > 30 * vm["frame_rate"][2] THEN (base * 15) \div 10 ELSE base

\* C13: the content multiplier of the bitrate model is 1.3 for Dolby Vision
\* profile 7, 1.2 for Dolby Vision of another profile, else 1.15 for HDR10,
\* else 1.1 for HLG, else 1.0, times 1.5 when the frame rate is above 30: the
\* bitrate returned is the one this multiplier gives.
C13_ContentMultiplier ==
    (pc = "returned" /\ call = "calculate_bitrate") =>
        target_bitrate =
            bitrate_with_content_multiplier(config, probe_data, duration, video_metadata,
                                            ContentMultiplier(video_metadata))

\* a profile 7 source at a high frame rate whose bitrate neither bound decides
C13_Witness ==
    /\ pc = "returned"
    /\ call = "calculate_bitrate"
    /\ DolbyVisionProfile7(video_metadata)
    /\ video_metadata["frame_rate"] = <<60, 1>>
    /\ target_bitrate > effective_min_bitrate(config, video_metadata)
    /\ target_bitrate < config.max_video_bitrate

\* the golden input: 4 GB target, 2160 lines, HDR10 without Dolby Vision, 24
\* frames a second, 10 bits, HEVC, 3600 s, two audio streams copied at 384k,
\* floor 8 Mbps, ceiling 30 Mbps
GoldenInput ==
    /\ config.target_size_gb = 4
    /\ config.copy_audio
    /\ config.audio_bitrate = audio_bitrate_384k
    /\ config.min_video_bitrate = 8000000
    /\ config.max_video_bitrate = 30000000
    /\ duration = 3600
    /\ audio_streams(probe_data) = 2
    /\ video_metadata["height"] = 2160
    /\ video_metadata["is_hdr10"]
    /\ ~video_metadata["has_dovi"]
    /\ video_metadata["frame_rate"] = <<24, 1>>
    /\ video_metadata["bits_per_raw_sample"] = 10
    /\ video_metadata["codec_name"] = "hevc"

\* C14: on the golden input calculate_bitrate returns 8,000,000 bits/s.
C14_GoldenBitrate ==
    (pc = "returned" /\ call = "calculate_bitrate" /\ GoldenInput) =>
        target_bitrate = 8000000

C14_Witness ==
    /\ pc = "returned"
    /\ call = "calculate_bitrate"
    /\ GoldenInput

----------------------------------------------------------------------------
(* The session under supervision *)

\* public calls made on one VideoProcessor
MaxCalls == 2

\* lines the diagnostic pipe can hold unread
MaxBuf == 1

\* granularity of the clock, in seconds
TickSeconds == 15

\* encode: encoding_timeout_seconds (line 594)
encoding_timeout_seconds == 30

\* stop_after_attempt of the two retry decorators (lines 60, 579)
probe_stop_after_attempt == 3

encode_stop_after_attempt == 2

\* retry_if_exception_type of the two decorators (lines 59, 578)
probe_retry_types == {"CalledProcessError", "JSONDecodeError"}

encode_retry_types == {"EncodingError"}

LineKinds == {"frame", "error", "other"}

NonEmptyFile == {"preexisting", "written"}

SessionConfigs == {DefaultConfig}

SessionVideo == VideoStream(0, 2160, "smpte2084", "hevc", 10, <<24, 1>>, <<>>)

SessionAudio == <<AudioStream(1, "eng"), AudioStream(2, "fre")>>

\* what the prober can print for the input file: a sound report, one without
\* a video stream, one of zero duration, and a parseable payload without "format"
SessionReports ==
    { Report(3600, <<SessionVideo>> \o SessionAudio),
      Report(3600, SessionAudio),
      Report(0, <<SessionVideo>> \o SessionAudio),
      [streams |-> <<SessionVideo>>] }

Init ==
    /\ \E c \in SessionConfigs : InitSession(c)
    /\ fileReport \in SessionReports
    /\ outFile \in {"absent", "empty", "preexisting"}
    /\ InitRest

\* a wrapper whose stop condition never holds
retry_decision_without_stop(exc, retry_types, attempt, stop) ==
    IF exc.type \notin retry_types THEN "reraise" ELSE "retry"

\* tenacity's Retrying.iter after a failed attempt: an exception the retry
\* predicate rejects is re-raised as it is; otherwise RetryError once the stop
\* condition holds (reraise is left False); otherwise sleep and call again
retry_decision(exc, retry_types, attempt, stop) ==
    IF exc.type \notin retry_types THEN "reraise"
    ELSE IF attempt >= stop THEN "RetryError"
    ELSE "retry"

\* the exception the wrapper raises when it does not retry
wrapper_raises(exc, decision) ==
    IF decision = "RetryError" THEN Exception("RetryError", exc.detail) ELSE exc

----------------------------------------------------------------------------
(* The caller *)

AtRest == pc \in {"idle", "returned", "raised"}

\* where an exception raised inside the public method goes: encode has an
\* except block (line 617), the other methods let it reach the caller
on_raise(method) == IF method = "encode" THEN "handler" ELSE "raised"

\* an encode that goes from the probe straight to the command builder
after_probe_skipping_bitrate(method) ==
    CASE method = "probe_file" -> "returned"
      [] method = "encode" -> "build"
      [] method = "build_command" -> "build"
      [] method = "get_stream_indexes" -> "indexes"

\* what follows "if not self.probe_data: self.probe_file()" (lines 599-600,
\* 169-170, 142-143) in each public method
after_probe(method) ==
    CASE method = "probe_file" -> "returned"
      [] method = "encode" -> "bitrate"
      [] method = "build_command" -> "build"
      [] method = "get_stream_indexes" -> "indexes"

\* the bitrates callers of build_command pass
BuildBitrates == {8000000, 25000000}

\* processor.encode(output_path): the retry wrapper makes its first attempt
CallEncode ==
    /\ AtRest
    /\ calls < MaxCalls
    /\ call' = "encode"
    /\ pc' = "validate"
    /\ attempt_number' = 1
    /\ probe_attempt' = 0
    /\ err' = NoError
    /\ target_bitrate' = 0
    /\ cmd' = <<>>
    /\ stream_indexes' = None
    /\ history' = <<>>
    /\ spawnCount' = 0
    /\ probeRuns' = 0
    /\ calls' = calls + 1
    /\ atCall' = [outFile |-> outFile, hwQueries |-> hwQueries]
    /\ reprobe' = "none"
    /\ logged' = "none"
    /\ curState' = "none"
    /\ UNCHANGED <<session, fileReport, outFile, returncode, curOpened, stderrBuf,
                   stderrClosed, elapsed,
                   lingerFresh, lingerOpened, hwQueries, hw_query>>

\* processor.probe_file(), called directly
CallProbeFile ==
    /\ AtRest
    /\ calls < MaxCalls
    /\ call' = "probe_file"
    /\ pc' = "probe"
    /\ attempt_number' = 0
    /\ probe_attempt' = 1
    /\ err' = NoError
    /\ target_bitrate' = 0
    /\ cmd' = <<>>
    /\ stream_indexes' = None
    /\ history' = <<>>
    /\ spawnCount' = 0
    /\ probeRuns' = 0
    /\ calls' = calls + 1
    /\ atCall' = [outFile |-> outFile, hwQueries |-> hwQueries]
    /\ reprobe' = "none"
    /\ logged' = "none"
    /\ curState' = "none"
    /\ UNCHANGED <<session, fileReport, outFile, returncode, curOpened, stderrBuf,
                   stderrClosed, elapsed,
                   lingerFresh, lingerOpened, hwQueries, hw_query>>

\* processor.build_command(output_path, target_bitrate) (lines 200-202)
CallBuildCommand ==
    /\ AtRest
    /\ calls < MaxCalls
    /\ call' = "build_command"
    /\ IF ~Truthy(probe_data)
       THEN pc' = "probe" /\ probe_attempt' = 1
       ELSE pc' = "build" /\ probe_attempt' = 0
    /\ attempt_number' = 0
    /\ err' = NoError
    /\ target_bitrate' \in BuildBitrates
    /\ cmd' = <<>>
    /\ stream_indexes' = None
    /\ history' = <<>>
    /\ spawnCount' = 0
    /\ probeRuns' = 0
    /\ calls' = calls + 1
    /\ atCall' = [outFile |-> outFile, hwQueries |-> hwQueries]
    /\ reprobe' = "none"
    /\ logged' = "none"
    /\ curState' = "none"
    /\ UNCHANGED <<session, fileReport, outFile, returncode, curOpened, stderrBuf,
                   stderrClosed, elapsed, lingerFresh, lingerOpened, hwQueries, hw_query>>

\* processor._get_stream_indexes() called on its own (the unit tests do)
CallGetStreamIndexes ==
    /\ AtRest
    /\ calls < MaxCalls
    /\ call' = "get_stream_indexes"
    /\ IF ~Truthy(probe_data)
       THEN pc' = "probe" /\ probe_attempt' = 1
       ELSE pc' = "indexes" /\ probe_attempt' = 0
    /\ attempt_number' = 0
    /\ err' = NoError
    /\ target_bitrate' = 0
    /\ cmd' = <<>>
    /\ stream_indexes' = None
    /\ history' = <<>>
    /\ spawnCount' = 0
    /\ probeRuns' = 0
    /\ calls' = calls + 1
    /\ atCall' = [outFile |-> outFile, hwQueries |-> hwQueries]
    /\ reprobe' = "none"
    /\ logged' = "none"
    /\ curState' = "none"
    /\ UNCHANGED <<session, fileReport, outFile, returncode, curOpened, stderrBuf,
                   stderrClosed, elapsed, lingerFresh, lingerOpened, hwQueries, hw_query>>

----------------------------------------------------------------------------
(* encode, one attempt (lines 596-622) *)

\* a validation that lets every output path pass
validate_output_path_unchecked(f) == NoError

\* _validate_output_path (lines 532-539)
validate_output_path(f) ==
    IF f \in NonEmptyFile THEN Exception("FileExistsError", "Output file exists") ELSE NoError

\* line 597, then the test of line 599
ValidateOutputPath ==
    /\ pc = "validate"
    /\ LET e == validate_output_path(outFile)
       IN IF e # NoError
          THEN /\ err' = e
               /\ pc' = "handler"
               /\ UNCHANGED probe_attempt
          ELSE /\ err' = err
               /\ IF ~Truthy(probe_data)
                  THEN pc' = "probe" /\ probe_attempt' = 1
                  ELSE pc' = "bitrate" /\ UNCHANGED probe_attempt
    /\ UNCHANGED <<session, fileReport, outFile, process, logged, reprobe, call, attempt_number,
                   target_bitrate, cmd, stream_indexes, history, counters>>

\* probe_file under its retry wrapper (lines 58-139): the prober runs once and
\* the wrapper decides on what the body raised
ProbeFile ==
    /\ pc = "probe"
    /\ \E outcome \in {"ok", "CalledProcessError", "JSONDecodeError"} :
         LET b == probe_file_body(outcome, fileReport, duration, video_metadata)
             d == retry_decision(b.exc, probe_retry_types, probe_attempt,
                                 probe_stop_after_attempt)
             e == wrapper_raises(b.exc, d)
         IN /\ probe_data' = IF b.set_probe_data THEN b.probe_data ELSE probe_data
            /\ duration' = b.duration
            /\ video_metadata' = b.video_metadata
            /\ IF b.exc = NoError
               THEN /\ pc' = after_probe(call)
                    /\ UNCHANGED <<err, probe_attempt>>
               ELSE IF d = "retry"
               THEN /\ pc' = "probe"
                    /\ probe_attempt' = probe_attempt + 1
                    /\ UNCHANGED err
               ELSE /\ pc' = on_raise(call)
                    /\ err' = e
                    /\ UNCHANGED probe_attempt
    /\ probeRuns' = probeRuns + 1
    /\ UNCHANGED <<config, hw_support, has_dolby_vision, dv, fileReport, outFile, process,
                   logged, reprobe, call, attempt_number, target_bitrate, cmd, stream_indexes,
                   history, spawnCount, hwQueries, hw_query, calls, atCall>>

\* line 602
CalculateBitrate ==
    /\ pc = "bitrate"
    /\ LET r == calculate_bitrate(config, probe_data, duration, video_metadata)
       IN IF r.exc = NoError
          THEN target_bitrate' = r.value /\ pc' = "build" /\ UNCHANGED err
          ELSE err' = r.exc /\ pc' = "handler" /\ UNCHANGED target_bitrate
    /\ UNCHANGED <<session, fileReport, outFile, process, logged, reprobe, call, attempt_number,
                   probe_attempt, cmd, stream_indexes, history, counters>>


\* _check_dolby_vision (lines 165-194): the value self.has_dolby_vision has
\* afterwards; a detection is never taken back
check_dolby_vision(pd, old) ==
    IF pd = None \/ ~HasKey(pd, "streams") THEN old
    ELSE LET video_stream == first_video_stream(pd["streams"])
         IN IF video_stream = None THEN old
            ELSE LET side_data == Get(video_stream, "side_data_list", <<>>)
                 IN old \/ \E i \in 1..Len(side_data) :
                              Get(side_data[i], "side_data_type", "") = DOVI_SIDE_DATA_TYPE

\* _get_video_stream (lines 355-369)
get_video_stream(pd) ==
    IF pd = None THEN Exception("ValueError", "Probe data is not available")
    ELSE IF first_video_stream(pd["streams"]) = None
    THEN Exception("ValueError", "No video stream found")
    ELSE NoError

\* _check_dolby_vision (lines 181-191): the dv_* attributes afterwards, read
\* from the first configuration record of the first video stream
check_dolby_vision_fields(pd, old) ==
    IF pd = None \/ ~HasKey(pd, "streams") THEN old
    ELSE LET video_stream == first_video_stream(pd["streams"])
         IN IF video_stream = None THEN old
            ELSE LET side_data == Get(video_stream, "side_data_list", <<>>)
                     idx == {i \in 1..Len(side_data) :
                               Get(side_data[i], "side_data_type", "") = DOVI_SIDE_DATA_TYPE}
                 IN IF idx = {} THEN old
                    ELSE LET dovi_conf == side_data[CHOOSE i \in idx : \A j \in idx : i <= j]
                         IN [ dv_profile |-> Get(dovi_conf, "dv_profile", 0),
                              dv_bl_present_flag |-> Get(dovi_conf, "dv_bl_present_flag", 0),
                              dv_el_present_flag |-> Get(dovi_conf, "dv_el_present_flag", 0),
                              dv_bl_signal_compatibility_id |->
                                  Get(dovi_conf, "dv_bl_signal_compatibility_id", 0) ]

\* a capability check that does not look at the cached flag
check_hardware_support_uncached(hw, outcome) ==
    IF outcome.status = "cannot_run"
    THEN [hw_support |-> hw, queried |-> FALSE, exc |-> Exception("OSError", "ffmpeg")]
    ELSE [hw_support |-> IF outcome.listed THEN "True" ELSE "False",
          queried |-> TRUE, exc |-> NoError]

\* _check_hardware_support (lines 349-353): subprocess.run with check=False
\* raises when the process cannot be started and ignores the exit code
check_hardware_support(hw, outcome) ==
    IF hw # "None" THEN [hw_support |-> hw, queried |-> FALSE, exc |-> NoError]
    ELSE IF outcome.status = "cannot_run"
    THEN [hw_support |-> hw, queried |-> FALSE, exc |-> Exception("OSError", "ffmpeg")]
    ELSE [hw_support |-> IF outcome.listed THEN "True" ELSE "False",
          queried |-> TRUE, exc |-> NoError]

\* lines 323-325
use_hw(c, hw) == c.use_hardware_acceleration /\ hw = "True"

----------------------------------------------------------------------------
(* The command: a list of tokens.  A token is the string s, or the string   *)
(* s followed by the decimal digits of n (an f-string).                     *)

T(s) == [s |-> s]

F(s, n) == [s |-> s, n |-> n]

\* ":".join(x265_params)
Joined(params) == [joined |-> params]

\* str(self.input_file), str(output_path)
input_file == "input.mkv"

output_path == "output.mkv"

\* str.lower on the language tags of the reports
lower(s) ==
    CASE s = "ENG" -> "eng"
      [] s = "English" -> "english"
      [] OTHER -> s

\* lines 154-161: is the stream listed under its category
stream_is_listed(c, stream) ==
    LET stream_type == Get(stream, "codec_type", "")
    IN IF \/ c.english_audio_only /\ stream_type = "audio"
          \/ c.english_subtitles_only /\ stream_type = "subtitle"
       THEN lower(Get(Get(stream, "tags", EmptyDict), "language", "")) \in {"eng", "english"}
       ELSE TRUE

\* a selection that ignores the language filters
get_stream_indexes_unfiltered(c, pd) ==
    LET of(stream_type) ==
            LET sel == SelectSeq(pd["streams"],
                                 LAMBDA st : Get(st, "codec_type", "") = stream_type)
            IN [i \in 1..Len(sel) |-> sel[i]["index"]]
    IN [video |-> of("video"), audio |-> of("audio"), subtitle |-> of("subtitle")]

\* _get_stream_indexes (lines 148-163)
get_stream_indexes(c, pd) ==
    LET of(stream_type) ==
            LET sel == SelectSeq(pd["streams"],
                                 LAMBDA st : /\ Get(st, "codec_type", "") = stream_type
                                             /\ stream_is_listed(c, st))
            IN [i \in 1..Len(sel) |-> sel[i]["index"]]
    IN [video |-> of("video"), audio |-> of("audio"), subtitle |-> of("subtitle")]

\* for idx in ...: cmd.extend(["-map", f"0:{idx}"])
RECURSIVE map_tokens(_)
map_tokens(idxs) ==
    IF idxs = <<>> THEN <<>>
    ELSE <<T("-map"), F("0:", Head(idxs))>> \o map_tokens(Tail(idxs))

\* a base command that maps every video stream
build_base_command_all_video(c, indexes) ==
    <<T("ffmpeg"), T("-y"), T("-hwaccel"), T("videotoolbox"), T("-i"), T(input_file)>>
      \o map_tokens(indexes.video)
      \o (IF c.copy_audio THEN map_tokens(indexes.audio) ELSE <<>>)
      \o (IF c.copy_subtitles THEN map_tokens(indexes.subtitle) ELSE <<>>)

\* _build_base_command (lines 371-386)
build_base_command(c, indexes) ==
    <<T("ffmpeg"), T("-y"), T("-hwaccel"), T("videotoolbox"), T("-i"), T(input_file)>>
      \o <<T("-map"), F("0:", indexes.video[1])>>
      \o (IF c.copy_audio THEN map_tokens(indexes.audio) ELSE <<>>)
      \o (IF c.copy_subtitles THEN map_tokens(indexes.subtitle) ELSE <<>>)

\* _build_dolby_vision_settings (lines 388-432)
build_dolby_vision_settings(c, d, bitrate) ==
    << T("-c:v"), T(c.hardware_encoder),
       T("-allow_sw"), T(IF c.allow_sw_fallback THEN "1" ELSE "0"),
       T("-profile:v"), T("main10"),
       T("-b:v"), F("", bitrate),
       T("-maxrate"), F("", (bitrate * 3) \div 2),
       T("-bufsize"), F("", bitrate * 2),
       T("-map_metadata:s:v:0"), T("0:s:v:0"),
       T("-strict"), T("-1"),
       T("-copy_unknown"),
       T("-metadata:s:v:0"), F("dv_profile=", d.dv_profile),
       T("-metadata:s:v:0"), F("dv_bl_present_flag=", d.dv_bl_present_flag),
       T("-metadata:s:v:0"), F("dv_el_present_flag=", d.dv_el_present_flag),
       T("-metadata:s:v:0"),
       F("dv_bl_signal_compatibility_id=", d.dv_bl_signal_compatibility_id),
       T("-max_ref_frames"), T(c.max_ref_frames),
       T("-quality"), T(c.quality_preset),
       T("-field_order"), T("progressive"),
       T("-probesize"), T("50000000"),
       T("-realtime"), T(c.realtime),
       T("-bf"), T(c.b_frames),
       T("-g"), T(c.group_of_pictures),
       T("-tag:v"), T("hvc1") >>

\* _build_hardware_encoding_settings (lines 434-467)
build_hardware_encoding_settings(c, bitrate, video_stream) ==
    << T("-c:v"), T(c.hardware_encoder),
       T("-b:v"), F("", bitrate),
       T("-maxrate"), F("", (bitrate * 3) \div 2),
       T("-bufsize"), F("", bitrate * 2),
       T("-tag:v"), T("hvc1"),
       T("-allow_sw"), T(IF c.allow_sw_fallback THEN "1" ELSE "0"),
       T("-profile:v"), T("main10"),
       T("-quality"), T(c.quality_preset),
       T("-colorspace"), T(Get(video_stream, "color_space", "bt2020nc")),
       T("-field_order"), T("progressive"),
       T("-probesize"), T("50000000"),
       T("-max_ref_frames"), T(c.max_ref_frames),
       T("-g"), T(c.group_of_pictures),
       T("-realtime"), T(c.realtime),
       T("-bf"), T(c.b_frames) >>

\* _build_software_encoding_settings (lines 469-493)
build_software_encoding_settings(c, bitrate, video_stream) ==
    LET x265_params ==
            << F("bitrate=", bitrate \div 1000),
               T("hdr10=1"),
               [s |-> "colorprim=", v |-> Get(video_stream, "color_primaries", "bt2020")],
               [s |-> "transfer=", v |-> Get(video_stream, "color_transfer", "smpte2084")],
               [s |-> "colormatrix=", v |-> Get(video_stream, "color_space", "bt2020nc")],
               T("repeat-headers=1"),
               [s |-> "max-cll=", v |-> c.hdr_params["max_cll"]],
               [s |-> "master-display=", v |-> c.hdr_params["master_display"]] >>
    IN << T("-c:v"), T(c.fallback_encoder),
          T("-preset"), T(c.preset),
          T("-x265-params"), Joined(x265_params),
          T("-profile:v"), T("main10"),
          T("-pix_fmt"), T("yuv420p10le") >>

\* video settings that take the Dolby Vision branch whatever the encoder
build_video_encoding_settings_any_encoder(c, hw, has_dv, d, bitrate, video_stream) ==
    IF has_dv THEN build_dolby_vision_settings(c, d, bitrate)
    ELSE IF hw THEN build_hardware_encoding_settings(c, bitrate, video_stream)
    ELSE build_software_encoding_settings(c, bitrate, video_stream)

\* _build_video_encoding_settings (lines 495-502)
build_video_encoding_settings(c, hw, has_dv, d, bitrate, video_stream) ==
    IF hw /\ has_dv THEN build_dolby_vision_settings(c, d, bitrate)
    ELSE IF hw THEN build_hardware_encoding_settings(c, bitrate, video_stream)
    ELSE build_software_encoding_settings(c, bitrate, video_stream)

\* audio settings that name the configured codec in both modes
build_audio_subtitle_settings_codec_always(c) ==
    (IF c.copy_audio THEN <<T("-c:a"), T("copy"), T("-b:a"), [chars |-> c.audio_bitrate]>>
     ELSE <<>>)
      \o <<T("-c:a"), T(c.audio_codec), T("-b:a"), [chars |-> c.audio_bitrate]>>
      \o (IF c.copy_subtitles THEN <<T("-c:s"), T("copy")>> ELSE <<>>)

\* _build_audio_subtitle_settings (lines 504-530)
build_audio_subtitle_settings(c) ==
    (IF c.copy_audio
     THEN <<T("-c:a"), T("copy"), T("-b:a"), [chars |-> c.audio_bitrate]>>
     ELSE <<T("-c:a"), T(c.audio_codec), T("-b:a"), [chars |-> c.audio_bitrate]>>)
      \o (IF c.copy_subtitles THEN <<T("-c:s"), T("copy")>> ELSE <<>>)

\* shared metadata without the muxing queue size
shared_metadata_without_queue_size ==
    << T("-metadata:s:v"), T("encoder=hevc_videotoolbox"),
       T("-map_chapters"), T("0") >>

\* ffmpeg_configs.py: the metadata both lists share after -map_metadata 0
shared_metadata ==
    << T("-metadata:s:v"), T("encoder=hevc_videotoolbox"),
       T("-metadata:s:v"), T("BT.2020_compatibility=1"),
       T("-metadata:s:v"), T("max_content_light_level=1000"),
       T("-metadata:s:v"), T("max_frame_average_light_level=400"),
       T("-metadata:s:v"), T("apple_hdr_profile=8.4"),
       T("-metadata:s:v"), T("apple_display_primaries=bt2020"),
       T("-metadata:s:a"), T("encoder=FFmpeg"),
       T("-metadata:s:a"), T("dolby_digital_plus=1"),
       T("-metadata:s:a"), T("dolby_atmos=1"),
       T("-metadata:s:a"), T("spatial_audio=1"),
       T("-metadata:s:a"), T("apple_spatial_audio=1"),
       T("-map_chapters"), T("0"),
       T("-max_muxing_queue_size"), T("4096") >>

\* ffmpeg_configs.py lines 1-39
dolby_vision_metadata ==
    << T("-map_metadata"), T("0"),
       T("-metadata:s:v"), T("hdr_version=1.0"),
       T("-metadata:s:v"), T("mastering_display_metadata_present=1") >>
      \o shared_metadata

\* ffmpeg_configs.py lines 42-76
hevc_metadata == <<T("-map_metadata"), T("0")>> \o shared_metadata

\* _build_command from line 321 on: [exc, cmd, stream_indexes]
build_command(c, pd, hw, has_dv, d, bitrate) ==
    LET e == get_video_stream(pd)
    IN IF e # NoError
       THEN [exc |-> e, cmd |-> <<>>, stream_indexes |-> None]
       ELSE LET video_stream == first_video_stream(pd["streams"])
                indexes == get_stream_indexes(c, pd)
                uhw == use_hw(c, hw)
            IN [ exc |-> NoError,
                 stream_indexes |-> indexes,
                 cmd |-> build_base_command(c, indexes)
                           \o build_video_encoding_settings(c, uhw, has_dv, d, bitrate,
                                                            video_stream)
                           \o build_audio_subtitle_settings(c)
                           \o (IF uhw /\ has_dv THEN dolby_vision_metadata
                               ELSE hevc_metadata)
                           \o <<T(output_path)>> ]

\* _get_stream_indexes from line 145 on
GetStreamIndexes ==
    /\ pc = "indexes"
    /\ IF ~HasKey(probe_data, "streams")
       THEN /\ err' = Exception("KeyError", "streams")
            /\ pc' = "raised"
            /\ UNCHANGED stream_indexes
       ELSE /\ stream_indexes' = get_stream_indexes(config, probe_data)
            /\ pc' = "returned"
            /\ UNCHANGED err
    /\ UNCHANGED <<session, fileReport, outFile, process, logged, reprobe, call, attempt_number,
                   probe_attempt, target_bitrate, cmd, history, counters>>

\* _build_command (lines 308-347) in an attempt of encode: Dolby Vision
\* detection, the capability query when none is cached, the video stream, the
\* stream indexes, the command
BuildCommand ==
    /\ pc = "build"
    /\ has_dolby_vision' = check_dolby_vision(probe_data, has_dolby_vision)
    /\ dv' = check_dolby_vision_fields(probe_data, dv)
    /\ \E outcome \in HwQueryOutcomes :
         LET q == check_hardware_support(hw_support, outcome)
             b == build_command(config, probe_data, q.hw_support, has_dolby_vision', dv',
                                target_bitrate)
         IN /\ hw_support' = q.hw_support
            /\ hwQueries' = IF q.queried THEN hwQueries + 1 ELSE hwQueries
            /\ hw_query' = IF hw_support = "None" THEN outcome ELSE hw_query
            /\ IF q.exc # NoError
               THEN err' = q.exc /\ pc' = on_raise(call) /\ UNCHANGED <<cmd, stream_indexes>>
               ELSE IF b.exc # NoError
               THEN err' = b.exc /\ pc' = on_raise(call) /\ UNCHANGED <<cmd, stream_indexes>>
               ELSE /\ cmd' = b.cmd
                    /\ stream_indexes' = b.stream_indexes
                    /\ pc' = IF call = "encode" THEN "spawn" ELSE "returned"
                    /\ UNCHANGED err
    /\ UNCHANGED <<config, probe_data, duration, video_metadata, fileReport, outFile,
                   process, logged, reprobe, call, attempt_number, probe_attempt, target_bitrate,
                   history, spawnCount, probeRuns, calls, atCall>>

\* lines 606-612 and 545: Popen, then last_progress = time.time()
SpawnEncoder ==
    /\ pc = "spawn"
    /\ curState' = "running"
    /\ curOpened' = FALSE
    /\ stderrBuf' = <<>>
    /\ stderrClosed' = FALSE
    /\ elapsed' = 0
    /\ spawnCount' = spawnCount + 1
    /\ logged' = "none"
    /\ pc' = "monitor"
    /\ UNCHANGED <<session, fileReport, outFile, returncode, lingerFresh, lingerOpened,
                   reprobe, call, attempt_number, probe_attempt, err, target_bitrate, cmd,
                   stream_indexes, history, probeRuns, hwQueries, hw_query, calls, atCall>>

\* terminate() (line 563) on the process of this attempt: a process that is
\* still running has been sent the signal and is not waited for
terminate(state) == IF state = "running" THEN "terminated" ELSE state

\* a monitor that forwards no message for a line carrying the error marker
log_level_errors_dropped(line) == IF line = "frame" THEN "info" ELSE "none"

\* lines 553-560: a line carrying "frame=" has its frame number logged at
\* info level; otherwise a line carrying "error" (in any case) is passed to
\* logger.error; any other line is not forwarded
log_level(line) ==
    IF line = "frame" THEN "info" ELSE IF line = "error" THEN "error" ELSE "none"

\* one pass of the monitor loop (lines 548-564).  readline blocks while the
\* pipe is open and empty; it returns "" once the pipe is empty and closed,
\* by the exit of the process or by the process itself.
MonitorStep ==
    /\ pc = "monitor"
    /\ \/ /\ stderrBuf = <<>>
          /\ curState = "exited"
          /\ pc' = "verify"
          /\ UNCHANGED <<process, err, logged>>
       \/ /\ \/ stderrBuf # <<>>
             \/ stderrClosed /\ curState = "running" /\ elapsed > encoding_timeout_seconds
          /\ LET line == IF stderrBuf # <<>> THEN Head(stderrBuf) ELSE ""
                 since == IF line = "frame" THEN 0 ELSE elapsed
             IN /\ stderrBuf' = IF stderrBuf # <<>> THEN Tail(stderrBuf) ELSE stderrBuf
                /\ logged' = log_level(line)
                /\ IF since > encoding_timeout_seconds
                   THEN /\ err' = Exception("EncodingError", "Encoding stalled")
                        /\ pc' = "handler"
                        /\ curState' = terminate(curState)
                        /\ lingerFresh' = IF curState = "running" /\ ~curOpened
                                          THEN lingerFresh + 1 ELSE lingerFresh
                        /\ lingerOpened' = IF curState = "running" /\ curOpened
                                           THEN lingerOpened + 1 ELSE lingerOpened
                        /\ UNCHANGED elapsed
                   ELSE /\ elapsed' = since
                        /\ pc' = "monitor"
                        /\ UNCHANGED <<err, curState, lingerFresh, lingerOpened>>
                /\ UNCHANGED <<returncode, curOpened, stderrClosed>>
    /\ UNCHANGED <<session, fileReport, outFile, reprobe, call, attempt_number,
                   probe_attempt, target_bitrate, cmd, stream_indexes, history, counters>>

\* a verification that does not look at the exit code
verify_output_ignoring_code(code, exists, probe_ok) ==
    IF exists
    THEN (IF probe_ok THEN NoError ELSE Exception("CalledProcessError", "ffprobe"))
    ELSE Exception("EncodingError", "Output file not created")

\* _verify_output (lines 566-575); probe_ok is the exit status of the ffprobe
\* run on the output
verify_output(code, exists, probe_ok) ==
    IF code # 0 THEN Exception("EncodingError", "FFmpeg failed with code 1")
    ELSE IF exists
    THEN (IF probe_ok THEN NoError ELSE Exception("CalledProcessError", "ffprobe"))
    ELSE Exception("EncodingError", "Output file not created")

\* line 615
VerifyOutput ==
    /\ pc = "verify"
    /\ \E probe_ok \in BOOLEAN :
         LET e == verify_output(returncode, outFile # "absent", probe_ok)
         IN /\ reprobe' = IF returncode = 0 /\ outFile # "absent"
                          THEN (IF probe_ok THEN "ok" ELSE "failed") ELSE "none"
            /\ err' = e
            /\ pc' = IF e = NoError THEN "returned" ELSE "handler"
    /\ UNCHANGED <<session, fileReport, outFile, process, logged, call, attempt_number,
                   probe_attempt, target_bitrate, cmd, stream_indexes, history, counters>>

\* the except block (lines 617-622): unlink the output if it exists, re-raise
ExceptHandler ==
    /\ pc = "handler"
    /\ outFile' = "absent"
    /\ history' = Append(history, err)
    /\ pc' = "reraise"
    /\ UNCHANGED <<session, fileReport, process, logged, reprobe, call, attempt_number,
                   probe_attempt, err, target_bitrate, cmd, stream_indexes, counters>>

\* the retry wrapper of encode (lines 577-582) on the exception of an attempt
EncodeRetry ==
    /\ pc = "reraise"
    /\ LET d == retry_decision(err, encode_retry_types, attempt_number,
                               encode_stop_after_attempt)
       IN IF d = "retry"
          THEN pc' = "backoff" /\ UNCHANGED err
          ELSE pc' = "raised" /\ err' = wrapper_raises(err, d)
    /\ UNCHANGED <<session, fileReport, outFile, process, logged, reprobe, call, attempt_number,
                   probe_attempt, target_bitrate, cmd, stream_indexes, history, counters>>

\* wait_exponential has elapsed: the next attempt starts
BackoffDone ==
    /\ pc = "backoff"
    /\ attempt_number' = attempt_number + 1
    /\ pc' = "validate"
    /\ err' = NoError
    /\ target_bitrate' = 0
    /\ cmd' = <<>>
    /\ stream_indexes' = None
    /\ curState' = "none"
    /\ UNCHANGED <<session, fileReport, outFile, returncode, curOpened, stderrBuf,
                   stderrClosed, elapsed,
                   lingerFresh, lingerOpened, logged, reprobe, call, probe_attempt, history,
                   counters>>

----------------------------------------------------------------------------
(* The encoder processes and the clock *)

\* the encoder writes a line to its diagnostic stream
ProcEmit ==
    /\ curState = "running"
    /\ ~stderrClosed
    /\ Len(stderrBuf) < MaxBuf
    /\ \E k \in LineKinds : stderrBuf' = Append(stderrBuf, k)
    /\ UNCHANGED <<session, fileReport, outFile, curState, returncode, curOpened,
                   stderrClosed, elapsed, lingerFresh, lingerOpened, logged, reprobe, control,
                   counters>>

\* the encoder opens the output path (the last token of the command, with -y)
ProcOpenOutput ==
    /\ curState = "running"
    /\ ~curOpened
    /\ curOpened' = TRUE
    /\ outFile' = "written"
    /\ UNCHANGED <<session, fileReport, curState, returncode, stderrBuf,
                   stderrClosed, elapsed,
                   lingerFresh, lingerOpened, logged, reprobe, control, counters>>

\* the encoder closes its diagnostic stream and keeps running
ProcCloseStderr ==
    /\ curState = "running"
    /\ ~stderrClosed
    /\ stderrClosed' = TRUE
    /\ UNCHANGED <<session, fileReport, outFile, curState, returncode, curOpened, stderrBuf,
                   elapsed, lingerFresh, lingerOpened, logged, reprobe, control, counters>>

\* the encoder exits
ProcExit ==
    /\ curState = "running"
    /\ curState' = "exited"
    /\ \E code \in ExitCodes : returncode' = code
    /\ UNCHANGED <<session, fileReport, outFile, curOpened, stderrBuf,
                   stderrClosed, elapsed,
                   lingerFresh, lingerOpened, logged, reprobe, control, counters>>

\* a process that was sent terminate() (line 563) and not waited for opens the output
LingerOpenOutput ==
    /\ lingerFresh > 0
    /\ lingerFresh' = lingerFresh - 1
    /\ lingerOpened' = lingerOpened + 1
    /\ outFile' = "written"
    /\ UNCHANGED <<session, fileReport, curState, returncode, curOpened, stderrBuf,
                   stderrClosed, elapsed,
                   logged, reprobe, control, counters>>

\* a terminated process exits
LingerExit ==
    /\ \/ lingerFresh > 0 /\ lingerFresh' = lingerFresh - 1 /\ UNCHANGED lingerOpened
       \/ lingerOpened > 0 /\ lingerOpened' = lingerOpened - 1 /\ UNCHANGED lingerFresh
    /\ UNCHANGED <<session, fileReport, outFile, curState, returncode, curOpened, stderrBuf,
                   stderrClosed,
                   elapsed, logged, reprobe, control, counters>>

\* time passes while the monitor loop has no line to read (a pass of the loop
\* over a line that is there takes no time on this clock)
Tick ==
    /\ pc = "monitor"
    /\ stderrBuf = <<>>
    /\ curState = "running"
    /\ elapsed <= encoding_timeout_seconds
    /\ elapsed' = elapsed + TickSeconds
    /\ UNCHANGED <<session, fileReport, outFile, curState, returncode, curOpened, stderrBuf,
                   stderrClosed,
                   lingerFresh, lingerOpened, logged, reprobe, control, counters>>

----------------------------------------------------------------------------

Supervisor ==
    \/ ValidateOutputPath
    \/ ProbeFile
    \/ CalculateBitrate
    \/ BuildCommand
    \/ SpawnEncoder
    \/ MonitorStep
    \/ VerifyOutput
    \/ ExceptHandler
    \/ EncodeRetry
    \/ BackoffDone

Next ==
    \/ CallEncode
    \/ CallProbeFile
    \/ CallBuildCommand
    \/ Supervisor
    \/ ProcEmit
    \/ ProcOpenOutput
    \/ ProcCloseStderr
    \/ ProcExit
    \/ LingerOpenOutput
    \/ LingerExit
    \/ Tick

Spec == Init /\ [][Next]_vars

\* the interpreter keeps running the supervisor and the clock keeps going;
\* nothing is assumed of the encoder processes
FairSpec == Spec /\ WF_vars(Supervisor) /\ WF_vars(Tick)

----------------------------------------------------------------------------
(* The command builder and the stream selection on their own: a session on  *)
(* which the caller invokes build_command and _get_stream_indexes.          *)

SubtitleStream(idx, lang) ==
    [ index |-> idx, codec_type |-> "subtitle", codec_name |-> "hdmv_pgs_subtitle",
      tags |-> [language |-> lang] ]

\* an audio stream without tags
UntaggedAudioStream(idx) == [index |-> idx, codec_type |-> "audio", codec_name |-> "aac"]

\* a stream of a category the selection does not list
DataStream(idx) == [index |-> idx, codec_type |-> "data"]

\* a configuration record without its fields
BareDoviRecord == [side_data_type |-> DOVI_SIDE_DATA_TYPE]

BuildVideo(idx, side) == VideoStream(idx, 2160, "smpte2084", "hevc", 10, <<24, 1>>, side)

BuildReports ==
    { Report(3600, << BuildVideo(0, <<>>), AudioStream(1, "eng"), AudioStream(2, "fre"),
                      SubtitleStream(3, "eng"), SubtitleStream(4, "fre") >>),
      Report(3600, << AudioStream(0, "ENG"), BuildVideo(1, <<DoviFfprobeRecord(8)>>),
                      BuildVideo(2, <<>>), SubtitleStream(3, "English"), DataStream(4),
                      UntaggedAudioStream(5) >>),
      Report(3600, << BuildVideo(0, <<DoviMarkerRecord(7)>>), AudioStream(1, "fre") >>),
      Report(3600, << BuildVideo(0, <<BareDoviRecord, DoviFfprobeRecord(5)>>),
                      AudioStream(1, "eng") >>),
      Report(3600, << AudioStream(0, "eng"), SubtitleStream(1, "eng") >>),
      [streams |-> <<BuildVideo(0, <<>>)>>] }

BuildConfigs ==
    { [DefaultConfig EXCEPT !.copy_audio = ca, !.copy_subtitles = cs,
                            !.english_audio_only = ea, !.english_subtitles_only = es,
                            !.use_hardware_acceleration = hw, !.audio_codec = codec] :
        ca \in BOOLEAN, cs \in BOOLEAN, ea \in BOOLEAN, es \in BOOLEAN, hw \in BOOLEAN,
        codec \in {"aac", "eac3"} }

BuildInit ==
    /\ \E c \in BuildConfigs : InitSession(c)
    /\ fileReport \in BuildReports
    /\ outFile = "absent"
    /\ InitRest

BuildNext ==
    \/ CallBuildCommand
    \/ CallGetStreamIndexes
    \/ ProbeFile
    \/ BuildCommand
    \/ GetStreamIndexes

SpecBuild == BuildInit /\ [][BuildNext]_vars

\* the text of a token
TokenText(t) == Get(t, "s", "")

DolbyVisionTokenTexts ==
    {"dv_profile=", "dv_bl_present_flag=", "dv_el_present_flag=",
     "dv_bl_signal_compatibility_id="}

HasDolbyVisionTokens(command) ==
    \E i \in 1..Len(command) : TokenText(command[i]) \in DolbyVisionTokenTexts

HardwarePathSelected == config.use_hardware_acceleration /\ hw_support = "True"

\* C11: the built command carries the Dolby Vision tokens if and only if the
\* hardware path is selected and Dolby Vision was detected.
C11_DolbyVisionTokensIffHardwareAndDetected ==
    cmd # <<>> =>
        (HasDolbyVisionTokens(cmd) <=> (HardwarePathSelected /\ has_dolby_vision))

C11_Witness ==
    /\ pc = "returned"
    /\ call = "build_command"
    /\ cmd # <<>>
    /\ HasDolbyVisionTokens(cmd)
    /\ HardwarePathSelected
    /\ has_dolby_vision

\* the arguments of the -c:a tokens of a command
AudioCodecPositions(command) == {i \in 1..(Len(command) - 1) : command[i] = T("-c:a")}

\* C12: the built command has exactly one audio codec token: copy when
\* copy_audio is set, the configured codec otherwise, never both.
C12_AudioCopyXorReencode ==
    cmd # <<>> =>
        /\ Cardinality(AudioCodecPositions(cmd)) = 1
        /\ \A i \in AudioCodecPositions(cmd) :
             cmd[i + 1] = T(IF config.copy_audio THEN "copy" ELSE config.audio_codec)

C12_Witness ==
    /\ pc = "returned"
    /\ call = "build_command"
    /\ cmd # <<>>
    /\ ~config.copy_audio
    /\ \E i \in AudioCodecPositions(cmd) : cmd[i + 1] = T("eac3")

\* the index fields of the video streams of the cached report, in source order
VideoPositions == {i \in 1..Len(probe_data["streams"]) :
                     Get(probe_data["streams"][i], "codec_type", "") = "video"}

\* positions of the command that map a video stream of the source
VideoMapPositions(command) ==
    {i \in 1..(Len(command) - 1) :
        /\ command[i] = T("-map")
        /\ \E p \in VideoPositions : command[i + 1] = F("0:", probe_data["streams"][p]["index"])}

\* C18: when the probed metadata has a video stream, the built command maps
\* exactly one video stream, the first one in source order.
C18_OneVideoMapTheFirst ==
    (cmd # <<>> /\ Truthy(probe_data) /\ VideoPositions # {}) =>
        /\ Cardinality(VideoMapPositions(cmd)) = 1
        /\ \A i \in VideoMapPositions(cmd) :
             \A p \in VideoPositions :
                 (\A q \in VideoPositions : p <= q) =>
                     cmd[i + 1] = F("0:", probe_data["streams"][p]["index"])

\* a command built from a report with two video streams, the first of which
\* is not the first stream
C18_Witness ==
    /\ pc = "returned"
    /\ call = "build_command"
    /\ cmd # <<>>
    /\ Cardinality(VideoPositions) = 2
    /\ 1 \notin VideoPositions

IsEnglish(stream) ==
    /\ HasKey(stream, "tags")
    /\ HasKey(stream["tags"], "language")
    /\ stream["tags"]["language"] \in {"eng", "ENG", "Eng", "english", "English", "ENGLISH"}

EnglishOnly(category) ==
    \/ category = "audio" /\ config.english_audio_only
    \/ category = "subtitle" /\ config.english_subtitles_only

\* the positions, in the cached report, of the streams a category is to list
ListedPositions(category) ==
    {i \in 1..Len(probe_data["streams"]) :
        /\ HasKey(probe_data["streams"][i], "codec_type")
        /\ probe_data["streams"][i]["codec_type"] = category
        /\ EnglishOnly(category) => IsEnglish(probe_data["streams"][i])}

\* the sequence lists the index fields of the streams at these positions, in order
ListsInOrder(indexes, positions) ==
    /\ Len(indexes) = Cardinality(positions)
    /\ \A i \in positions :
         indexes[Cardinality({j \in positions : j < i}) + 1] = probe_data["streams"][i]["index"]

\* C19: the stream selection lists, for video, audio and subtitle, the index
\* of every stream of that category in source order, restricted to the
\* streams tagged eng or english (in any case) where the English-only filter
\* of the category is set; streams of other categories are not listed.
C19_StreamSelection ==
    stream_indexes # None =>
        /\ DOMAIN stream_indexes = {"video", "audio", "subtitle"}
        /\ \A category \in DOMAIN stream_indexes :
             ListsInOrder(stream_indexes[category], ListedPositions(category))

\* a selection with both filters set that drops a stream of each filtered
\* category and keeps streams tagged ENG and English
C19_Witness ==
    /\ pc = "returned"
    /\ call = "get_stream_indexes"
    /\ config.english_audio_only
    /\ config.english_subtitles_only
    /\ stream_indexes # None
    /\ stream_indexes["audio"] = <<0>>
    /\ stream_indexes["subtitle"] = <<3>>
    /\ stream_indexes["video"] = <<1, 2>>
    /\ Len(probe_data["streams"]) = 6

----------------------------------------------------------------------------
(* Properties of the supervisor *)

ExitCodeError == Exception("EncodingError", "FFmpeg failed with code 1")

StalledError == Exception("EncodingError", "Encoding stalled")

\* every attempt of the current call ended with the encoder exiting nonzero
AllAttemptsExitedNonzero ==
    /\ history # <<>>
    /\ \A i \in 1..Len(history) : history[i] = ExitCodeError

\* C2: with an encoder that exits nonzero on every attempt, one encode call
\* spawns the encoder at most encode_stop_after_attempt times, and after that
\* many failed attempts no further attempt is started.
C2_SpawnsAtMostCeiling ==
    call = "encode" =>
        /\ spawnCount <= encode_stop_after_attempt
        /\ (AllAttemptsExitedNonzero /\ Len(history) >= encode_stop_after_attempt)
              => pc \in {"reraise", "raised"}

C2_Witness ==
    /\ pc = "raised"
    /\ call = "encode"
    /\ AllAttemptsExitedNonzero
    /\ spawnCount = encode_stop_after_attempt

\* C3: when the encoder exits nonzero on every attempt, the error that reaches
\* the caller of encode is the EncodingError carrying the exit code.
C3_ExitCodeErrorReachesCaller ==
    (pc = "raised" /\ call = "encode" /\ AllAttemptsExitedNonzero) => err = ExitCodeError

\* C4: after any terminal failure of encode no file exists at the output path.
C4_NoFileAfterTerminalFailure ==
    (pc = "raised" /\ call = "encode") => outFile = "absent"

\* C5: whenever the diagnostic stream has carried no progress line for longer
\* than the stall window while the process is running, the supervisor
\* eventually terminates the process and raises "Encoding stalled" (unless the
\* process ends or progress resumes first).
C5_StallEventuallyRaised ==
    (pc = "monitor" /\ curState = "running" /\ elapsed > encoding_timeout_seconds)
        ~> \/ err = StalledError
           \/ curState # "running"
           \/ elapsed <= encoding_timeout_seconds

\* C6: encode returns normally only if the encoder process of the last attempt
\* exited with code 0 and the output file exists.
C6_SuccessNeedsExitZeroAndOutput ==
    (pc = "returned" /\ call = "encode") =>
        /\ curState = "exited"
        /\ returncode = 0
        /\ outFile # "absent"

C6_Witness ==
    /\ pc = "returned"
    /\ call = "encode"
    /\ attempt_number = encode_stop_after_attempt
    /\ returncode = 0
    /\ outFile = "written"

\* C7: when the encoder exited with code 0 and the output exists, a failed
\* re-probe of the output is advisory: encode succeeds and the output is kept.
C7_ReprobeFailureIsAdvisory ==
    (call = "encode" /\ reprobe = "failed" /\ pc \in {"returned", "raised"}) =>
        /\ pc = "returned"
        /\ outFile # "absent"

\* C8: if the output path references a non-empty file when encode is called,
\* the call does no probe, no capability query and no spawn, is not retried,
\* and ends with the output-exists error.
C8_OutputExistsFailsFast ==
    (call = "encode" /\ atCall.outFile \in NonEmptyFile) =>
        /\ probeRuns = 0
        /\ spawnCount = 0
        /\ hwQueries = atCall.hwQueries
        /\ attempt_number = 1
        /\ pc \in {"validate", "handler", "reraise", "raised"}
        /\ pc = "raised" => err.type = "FileExistsError"

C8_Witness ==
    /\ pc = "raised"
    /\ call = "encode"
    /\ atCall.outFile = "preexisting"
    /\ err.type = "FileExistsError"

\* C9: a probe failure is retried (more than one and at most
\* probe_stop_after_attempt prober runs) before ProbeError reaches the caller.
C9_ProbeFailureIsRetried ==
    (pc = "raised" /\ err.type = "ProbeError") =>
        /\ probeRuns > 1
        /\ probeRuns <= probe_stop_after_attempt

\* the cached report is well formed and has no video stream or no duration
InvalidMetadata ==
    /\ Truthy(probe_data)
    /\ HasKey(probe_data, "format")
    /\ HasKey(probe_data, "streams")
    /\ \/ first_video_stream(probe_data["streams"]) = None
       \/ duration <= 0

\* C10: with no video stream or a duration <= 0, encode fails with a
\* ValueError before any encoder is spawned, and the failure is not retried.
C10_InvalidMetadataIsValueError ==
    (pc = "raised" /\ call = "encode" /\ InvalidMetadata /\ err.type # "FileExistsError") =>
        /\ err.type = "ValueError"
        /\ spawnCount = 0
        /\ attempt_number = 1

\* encoder processes of this session that have not exited
AliveEncoders == (IF curState = "running" THEN 1 ELSE 0) + lingerFresh + lingerOpened

\* C15: retries are sequential: while the encoder of a later attempt of an
\* encode call runs, no encoder of an earlier attempt is still alive.
C15_RetriesAreSequential ==
    (call = "encode" /\ calls = 1 /\ attempt_number > 1 /\ curState = "running") =>
        AliveEncoders = 1

QueryFailed ==
    /\ hw_query # NoQuery
    /\ \/ hw_query.status = "cannot_run"
       \/ hw_query.status = "ran" /\ hw_query.returncode # 0

\* C17: a failed capability query leaves the session with hardware
\* unavailable, and no error comes out of the command builder.
C17_FailedQueryDegrades ==
    QueryFailed =>
        /\ hw_support = "False"
        /\ err.type # "OSError"

\* C20: every encode call eventually ends, returned or raised, unless its
\* encoder is still running and reporting progress.
C20_EncodeTerminates ==
    (call = "encode" /\ ~AtRest)
        ~> \/ AtRest
           \/ curState = "running" /\ elapsed <= encoding_timeout_seconds

\* the three branches of the command builder
Branch ==
    IF HardwarePathSelected /\ has_dolby_vision THEN "hardware_dolby_vision"
    ELSE IF HardwarePathSelected THEN "hardware"
    ELSE "software"

\* C21: in every branch the built command starts with the encoder
\* executable, has the input path right after -i, carries the muxing queue
\* size token and ends with the output path.
C21_CommandShape ==
    cmd # <<>> =>
        /\ cmd[1] = T("ffmpeg")
        /\ \E i \in 1..(Len(cmd) - 1) : cmd[i] = T("-i") /\ cmd[i + 1] = T(input_file)
        /\ \A i \in 1..(Len(cmd) - 1) : cmd[i] = T("-i") => cmd[i + 1] = T(input_file)
        /\ \E i \in 1..(Len(cmd) - 1) :
             cmd[i] = T("-max_muxing_queue_size") /\ cmd[i + 1] = T("4096")
        /\ cmd[Len(cmd)] = T(output_path)

\* a command of the hardware branch with Dolby Vision
C21_Witness ==
    /\ pc = "returned"
    /\ call = "build_command"
    /\ cmd # <<>>
    /\ Branch = "hardware_dolby_vision"

\* the stream indexes an argument of -map names in the command
MappedIndexes(command) ==
    {command[i + 1].n : i \in {j \in 1..(Len(command) - 1) : command[j] = T("-map")}}

HasSubtitleCodecToken(command) == \E i \in 1..Len(command) : command[i] = T("-c:s")

\* C22: the built command maps every selected audio stream, with copy_audio
\* set or not, and maps the selected subtitle streams exactly when
\* copy_subtitles is set (no subtitle map and no -c:s token otherwise).
C22_AudioAndSubtitleMaps ==
    cmd # <<>> =>
        /\ SeqToSet(stream_indexes["audio"]) \subseteq MappedIndexes(cmd)
        /\ IF config.copy_subtitles
           THEN SeqToSet(stream_indexes["subtitle"]) \subseteq MappedIndexes(cmd)
           ELSE /\ SeqToSet(stream_indexes["subtitle"]) \cap MappedIndexes(cmd) = {}
                /\ ~HasSubtitleCodecToken(cmd)

\* C23: in an attempt of encode the probe comes before the bitrate, the
\* bitrate before the command and the command before the spawn; the prober
\* runs only when no metadata is cached; the encoder is spawned only with a
\* bitrate and a command computed in the same attempt.
C23_StepOrder ==
    [][ call = "encode" /\ call' = "encode" /\ calls' = calls =>
          /\ probeRuns' > probeRuns => ~Truthy(probe_data)
          /\ pc' \in {"bitrate", "build", "spawn", "monitor", "verify"} => Truthy(probe_data')
          /\ pc' \in {"build", "spawn", "monitor", "verify"} => target_bitrate' > 0
          /\ spawnCount' > spawnCount =>
               /\ target_bitrate > 0
               /\ cmd # <<>>
               /\ cmd = build_command(config, probe_data, hw_support, has_dolby_vision, dv,
                                      target_bitrate).cmd ]_vars

\* the second attempt of an encode call has spawned its encoder, and the
\* prober has run once, in the first attempt
C23_Witness ==
    /\ call = "encode"
    /\ calls = 1
    /\ attempt_number = 2
    /\ pc = "monitor"
    /\ spawnCount = 2
    /\ probeRuns = 1

structurally_valid(report) ==
    /\ HasKey(report, "format")
    /\ HasKey(report["format"], "size")
    /\ HasKey(report["format"], "duration")
    /\ HasKey(report, "streams")

\* C25: when the payload of the prober is parseable but lacks "format", its
\* size or duration, or "streams", the probe fails with ProbeError (no lookup
\* error reaches the caller) and nothing of the payload is cached: probe_data
\* stays absent
C25_InvalidPayloadIsProbeError ==
    ~structurally_valid(fileReport) =>
        /\ probe_data = None
        /\ ~(pc \in {"raised", "handler"} /\ err.type = "KeyError")

\* lines 179-184: the first side data entry of the stream whose side_data_type
\* is "DOVI configuration record", or None
dovi_conf(video_stream) ==
    LET side_data == Get(video_stream, "side_data_list", <<>>)
        idx == {i \in 1..Len(side_data) :
                  Get(side_data[i], "side_data_type", "") = DOVI_SIDE_DATA_TYPE}
    IN IF idx = {} THEN None
       ELSE side_data[CHOOSE i \in idx : \A j \in idx : i <= j]

\* the command has the two tokens -metadata:s:v:0 <key><n>
HasMetadataToken(command, key, n) ==
    \E i \in 1..(Len(command) - 1) :
        command[i] = T("-metadata:s:v:0") /\ command[i + 1] = F(key, n)

\* C26: the Dolby Vision values used downstream come from the first matching
\* configuration record, a missing field taking its documented default:
\* profile 0, base layer present 1, enhancement layer present 0.  This holds
\* of the Dolby Vision tokens of a built command and of the values the probe
\* stores for the bitrate model.
C26_DolbyVisionDefaults ==
    cmd # <<>> =>
        LET video_stream == first_video_stream(probe_data["streams"])
            conf == dovi_conf(video_stream)
            data == first_dovi_marker(Get(video_stream, "side_data_list", <<>>))
        IN /\ HasDolbyVisionTokens(cmd) =>
                /\ HasMetadataToken(cmd, "dv_profile=", Get(conf, "dv_profile", 0))
                /\ HasMetadataToken(cmd, "dv_bl_present_flag=",
                                    Get(conf, "dv_bl_present_flag", 1))
                /\ HasMetadataToken(cmd, "dv_el_present_flag=",
                                    Get(conf, "dv_el_present_flag", 0))
           /\ HasKey(video_metadata, "dovi_profile") =>
                /\ video_metadata["dovi_profile"] = Get(data, "dovi_profile", 0)
                /\ video_metadata["dovi_bl_present_flag"] =
                       Get(data, "dovi_bl_present_flag", 1)
                /\ video_metadata["dovi_el_present_flag"] =
                       Get(data, "dovi_el_present_flag", 0)

\* C27: when the first attempt of an encode call fails the output-exists
\* precondition, the non-empty file that was at the output path before the
\* call is still there, unchanged, once the failure has been handled: the
\* cleanup removes only output written by this call
C27_PreexistingFileKept ==
    [][ ( /\ call = "encode"
          /\ attempt_number = 1
          /\ pc = "handler"
          /\ err.type = "FileExistsError"
          /\ outFile = atCall.outFile
          /\ pc' = "reraise" )
        => outFile' = outFile ]_vars

\* C28: for one probe report the bitrate model and the command builder agree
\* on Dolby Vision: once a command was built, the flag has_dovi, from which
\* the bitrate model applies its Dolby Vision multiplier and its 12 Mbps
\* floor, is true exactly when the builder's detection has_dolby_vision is
C28_DolbyVisionDetectionsAgree ==
    (cmd # <<>> /\ probe_data = fileReport) =>
        (video_metadata["has_dovi"] <=> has_dolby_vision)

\* the number of -map tokens of a command whose stream is an audio stream of
\* the report
MappedAudioCount(command, pd) ==
    Cardinality({i \in 1..Len(pd["streams"]) :
                   /\ pd["streams"][i]["codec_type"] = "audio"
                   /\ pd["streams"][i]["index"] \in MappedIndexes(command)})

\* C29: the number of audio streams for which the bitrate model reserves bits
\* (none when audio is not copied) equals the number of audio streams the
\* built command maps into the output, whatever the language filter and the
\* copy flag are
C29_AudioCountsAgree ==
    cmd # <<>> =>
        (IF config.copy_audio THEN audio_streams(probe_data) ELSE 0)
            = MappedAudioCount(cmd, probe_data)

\* C30: a stall is declared only for a process that is still running: an
\* attempt whose encoder has exited with code 0 and has written the output
\* is not failed as stalled, so its output is not deleted for a stall
C30_NoStallAfterCleanExit ==
    ~( /\ call = "encode"
       /\ pc = "handler"
       /\ err = Exception("EncodingError", "Encoding stalled")
       /\ curState = "exited"
       /\ returncode = 0
       /\ outFile = "written" )

====
